---- MODULE Spec2Model ----
(***************************************************************************)
(* kube-demo: a terminal dashboard that shows the nodes of a cluster as a  *)
(* grid of boxes.  The module models the cursor arithmetic (moveCursor),   *)
(* the geometry (GetBoxesPerRow), the event loop (Update / View) and the   *)
(* bridge between the informer callbacks and the event loop (the           *)
(* k8sStateUpdate and stopCh channels).                                    *)
(***************************************************************************)
EXTENDS Integers, Sequences, FiniteSets, TLC

----------------------------------------------------------------------------
(* Bounds of the model *)

\* most nodes the informer store holds
MaxNodes == 3
\* widest terminal, in node boxes per row
MaxCols == 2
\* most notifications queued in one informer listener
MaxPending == 1
\* the cursor index is kept within -MaxIndex .. MaxIndex
MaxIndex == 4
\* navigation specification: most nodes, widest terminal, keys pressed
MaxNavTotal == 7
MaxNavCols == 4
MaxNavKeys == 2
\* width in bits kept for the operands of mod (Go's int has 64)
IntBits == 6
\* most pods on one node
MaxPods == 3
\* ordering: most objects in a store, latest creation timestamp
MaxEntities == 3
MaxStamp == 2
\* packing: most boxes, most boxes per row
MaxPack == 7
MaxPackPerRow == 4

----------------------------------------------------------------------------
(* Style constants *)

\* canvasStyle = lipgloss.NewStyle().Padding(1, 2, 1, 2): right and left
CanvasPaddingRight == 2
CanvasPaddingLeft == 2
\* nodeStyle: Width(30), Margin(1), Border(HiddenBorder, true), Padding(1)
NodeWidth == 30
NodeMargin == 1
NodeBorder == 1

\* Style.GetHorizontalPadding() of canvasStyle
CanvasHorizontalPadding == CanvasPaddingLeft + CanvasPaddingRight

\* boxSize of GetBoxesPerRow for subContainer = nodeStyle
NodeBoxSize == NodeWidth + 2 * NodeMargin + 2 * NodeBorder

\* nodeStyle: Height(10), the least height of the padded block
NodeHeight == 10

\* lines of one rendered node box: block, border and margin
NodeBoxLines == NodeHeight + 2 * NodeBorder + 2 * NodeMargin

----------------------------------------------------------------------------
(* Go integer arithmetic *)

Abs(a) == IF a < 0 THEN -a ELSE a

\* Go's / on ints truncates toward zero (b # 0)
GoDiv(a, b) ==
    IF (a >= 0) = (b > 0) THEN Abs(a) \div Abs(b) ELSE -(Abs(a) \div Abs(b))

\* Go's % is the remainder of the truncated division
GoRem(a, b) == a - b * GoDiv(a, b)

\* the range of int
MaxInt == 2 ^ (IntBits - 1) - 1
MinInt == -(2 ^ (IntBits - 1))

\* the sum of two ints wraps around
WrapInt(x) == ((x - MinInt) % (2 ^ IntBits)) + MinInt

\* func mod(a, b int) int { return (a%b + b) % b }
mod(a, b) == GoRem(WrapInt(GoRem(a, b) + b), b)

\* GetBoxesPerRow: int(float64(width - padding) / float64(boxSize))
GetBoxesPerRow(containerWidth, containerPadding, boxSize) ==
    GoDiv(containerWidth - containerPadding, boxSize)

\* perRow as moveCursor and nodes compute it for canvasStyle and nodeStyle
NodesPerRow(width) == GetBoxesPerRow(width, CanvasHorizontalPadding, NodeBoxSize)

----------------------------------------------------------------------------
(* moveCursor, one operator per case of the switch; perRow # 0 *)

moveRight(sel, total, perRow) ==
    LET rowNum == GoDiv(sel, perRow)
        index == sel + 1
    IN  IF index >= total
        THEN index - GoRem(index, perRow)
        ELSE rowNum * perRow + GoRem(index, perRow)

\* moveLeft without the clamp to total - 1
moveLeftNoClamp(sel, total, perRow) ==
    GoDiv(sel, perRow) * perRow + mod(sel - 1, perRow)

moveLeft(sel, total, perRow) ==
    LET rowNum == GoDiv(sel, perRow)
        index == rowNum * perRow + mod(sel - 1, perRow)
    IN  IF index >= total THEN total - 1 ELSE index

\* moveUp that wraps to the last index instead of the column's last entry
moveUpWrapsToLastIndex(sel, total, perRow) ==
    IF sel - perRow < 0 THEN total - 1 ELSE sel - perRow

\* moveUp without the step back of one row
moveUpNoStepBack(sel, total, perRow) ==
    LET index == sel - perRow
    IN  IF index < 0
        THEN GoDiv(total, perRow) * perRow + mod(index, perRow)
        ELSE index

moveUp(sel, total, perRow) ==
    LET index == sel - perRow
        col == mod(index, perRow)
        bottomRow == GoDiv(total, perRow)
        newPos == bottomRow * perRow + col
    IN  IF index < 0
        THEN IF newPos >= total THEN newPos - perRow ELSE bottomRow * perRow + col
        ELSE index

moveDown(sel, total, perRow) ==
    LET index == sel + perRow
    IN  IF index >= total THEN GoRem(index, perRow) ELSE index

Keys == {"right", "left", "up", "down"}

\* the integer division or remainder by perRow that the case evaluates
\* panics when perRow = 0; "down" divides only on the wrap branch
moveCursorPanics(key, sel, total, perRow) ==
    /\ perRow = 0
    /\ \/ key \in {"right", "left", "up"}
       \/ key = "down" /\ sel + perRow >= total

moveCursor(key, sel, total, perRow) ==
    CASE key = "right" -> moveRight(sel, total, perRow)
      [] key = "left"  -> moveLeft(sel, total, perRow)
      [] key = "up"    -> moveUp(sel, total, perRow)
      [] key = "down"  -> moveDown(sel, total, perRow)
      [] OTHER         -> 0

----------------------------------------------------------------------------
(* State *)

VARIABLES
    nodeCount,     \* number of objects in nodeInformer's store
    selectedNode,  \* Model.selectedNode
    details,       \* Model.details
    canvasWidth,   \* width of the package variable canvasStyle (0: unset)
    stopCh,        \* Model.stopCh: "open" or "closed"
    synced,        \* the informer caches have synced
    waiter,        \* position of the command that feeds k8sStateChange
    inFlight,      \* commands started and not returned (cmds), refresh
                   \* messages returned and not yet taken by Update (msgs)
    pending,       \* notifications queued in each informer's listener
    callback,      \* each listener's handler: "idle" or "blocked" in its send
    loop,          \* event loop: "render", "idle", "exited" or "panicked"
    quitMsg,       \* the message of tea.Quit is in flight
    screenStale,   \* the store changed after the frame on screen was drawn
    navStart,      \* navigation specification: index before the first key
    navKeys,       \* navigation specification: keys applied so far
    input,         \* function specifications: the arguments
    output         \* function specifications: the result so far

vars == <<nodeCount, selectedNode, details, canvasWidth, stopCh,
          synced, waiter, inFlight, pending, callback, loop, quitMsg,
          screenStale, navStart, navKeys, input, output>>

uiVars == <<selectedNode, details>>
bridgeVars == <<stopCh, synced, waiter, inFlight, pending, callback>>
navVars == <<navStart, navKeys>>
fnVars == <<input, output>>
progVars == <<nodeCount, uiVars, canvasWidth, bridgeVars, loop, quitMsg,
              screenStale, navVars>>

Informers == {"node", "pod"}

\* terminal widths term.GetSize may report: none, one column short of a
\* box, and exactly k boxes
TermWidths ==
    {0, CanvasHorizontalPadding + NodeBoxSize - 1}
        \cup {CanvasHorizontalPadding + k * NodeBoxSize : k \in 1..MaxCols}

\* terminal heights term.GetSize may report: none, one row of boxes, and
\* a row for every node
TermHeights == {0, NodeBoxLines, MaxNodes * NodeBoxLines}

perRow == NodesPerRow(canvasWidth)

\* 0 <= index < max(1, total)
InRange(index, total) ==
    /\ 0 <= index
    /\ index < (IF total > 1 THEN total ELSE 1)

\* an Update that returns a command on the bridge for every message
waitsStartedByEveryMsg(msg) == 1

\* the number of commands waiting on the bridge that Update returns for a
\* message: the select command for k8sStateChange, none for a key (nil or
\* tea.Quit) or anything else
waitsStarted(msg) == IF msg = "k8sStateChange" THEN 1 ELSE 0

\* Update has taken a message off the queue and its commands are started
msgTaken(f, msg) ==
    [cmds |-> f.cmds + waitsStarted(msg),
     msgs |-> f.msgs - (IF msg = "k8sStateChange" THEN 1 ELSE 0)]

\* a command has returned k8sStateChange{} (refresh) or nil
cmdReturned(f, refresh) ==
    [cmds |-> f.cmds - 1,
     msgs |-> f.msgs + (IF refresh THEN 1 ELSE 0)]

\* New() followed by tea.NewProgram(...).Start(): the command of Init is
\* running and the first frame is about to be drawn
Init ==
    /\ nodeCount = 0
    /\ selectedNode = 0
    /\ details = FALSE
    /\ canvasWidth = 0
    /\ stopCh = "open"
    /\ synced = FALSE
    /\ waiter = "syncWait"
    /\ inFlight = [cmds |-> 1, msgs |-> 0]
    /\ pending = [i \in Informers |-> 0]
    /\ callback = [i \in Informers |-> "idle"]
    /\ loop = "render"
    /\ quitMsg = FALSE
    /\ screenStale = TRUE
    /\ navStart = 0
    /\ navKeys = <<>>
    /\ input = <<>>
    /\ output = <<>>

----------------------------------------------------------------------------
(* The informers *)

\* the informer updates its store and queues one notification for the
\* registered handler (AddFunc, UpdateFunc or DeleteFunc)
Notify(i) ==
    /\ stopCh = "open"
    /\ pending[i] < MaxPending
    /\ pending' = [pending EXCEPT ![i] = @ + 1]
    /\ screenStale' = TRUE

NodeAdded ==
    /\ Notify("node")
    /\ nodeCount < MaxNodes
    /\ nodeCount' = nodeCount + 1
    /\ UNCHANGED <<uiVars, canvasWidth, stopCh, synced, waiter, inFlight,
                   callback, loop, quitMsg, navVars, fnVars>>

NodeDeleted ==
    /\ Notify("node")
    /\ nodeCount > 0
    /\ nodeCount' = nodeCount - 1
    /\ UNCHANGED <<uiVars, canvasWidth, stopCh, synced, waiter, inFlight,
                   callback, loop, quitMsg, navVars, fnVars>>

NodeUpdated ==
    /\ Notify("node")
    /\ nodeCount > 0
    /\ UNCHANGED <<nodeCount, uiVars, canvasWidth, stopCh, synced, waiter,
                   inFlight, callback, loop, quitMsg, navVars, fnVars>>

PodChanged ==
    /\ Notify("pod")
    /\ UNCHANGED <<nodeCount, uiVars, canvasWidth, stopCh, synced, waiter,
                   inFlight, callback, loop, quitMsg, navVars, fnVars>>

CacheSynced ==
    /\ stopCh = "open"
    /\ ~synced
    /\ synced' = TRUE
    /\ UNCHANGED <<nodeCount, uiVars, canvasWidth, stopCh, waiter, inFlight,
                   pending, callback, loop, quitMsg, screenStale, navVars,
                   fnVars>>

\* func(...) { model.k8sStateUpdate <- struct{}{} } on an unbuffered
\* channel: the send completes at once when the command is parked in its
\* select, and blocks otherwise
CallbackSend(i) ==
    /\ pending[i] > 0
    /\ callback[i] = "idle"
    /\ pending' = [pending EXCEPT ![i] = @ - 1]
    /\ IF waiter = "parked"
       THEN /\ waiter' = "msg"
            /\ inFlight' = cmdReturned(inFlight, TRUE)
            /\ UNCHANGED callback
       ELSE /\ callback' = [callback EXCEPT ![i] = "blocked"]
            /\ UNCHANGED <<waiter, inFlight>>
    /\ UNCHANGED <<nodeCount, uiVars, canvasWidth, stopCh, synced, loop,
                   quitMsg, screenStale, navVars, fnVars>>

----------------------------------------------------------------------------
(* The commands *)

\* a command of Init that does not wait for the caches
InitCmdNoWait ==
    /\ waiter = "syncWait"
    /\ waiter' = "msg"
    /\ inFlight' = cmdReturned(inFlight, TRUE)
    /\ UNCHANGED <<nodeCount, uiVars, canvasWidth, stopCh, synced, pending,
                   callback, loop, quitMsg, screenStale, navVars, fnVars>>

\* Init's command: WaitForCacheSync(m.stopCh) returns once the caches have
\* synced or stopCh is closed, and the command returns k8sStateChange{}
InitCmd ==
    /\ waiter = "syncWait"
    /\ synced \/ stopCh = "closed"
    /\ waiter' = "msg"
    /\ inFlight' = cmdReturned(inFlight, TRUE)
    /\ UNCHANGED <<nodeCount, uiVars, canvasWidth, stopCh, synced, pending,
                   callback, loop, quitMsg, screenStale, navVars, fnVars>>

\* the cases of the command's select that can proceed when it is reached
SelectReady ==
    {<<"recv", i>> : i \in {j \in Informers : callback[j] = "blocked"}}
        \cup (IF stopCh = "closed" THEN {<<"stop", "none">>} ELSE {})

\* select { case <-m.k8sStateUpdate: ...  case <-m.stopCh: ... }: one of
\* the ready cases is chosen; with none ready the command parks
CmdSelect ==
    /\ waiter = "spawned"
    /\ IF SelectReady = {}
       THEN /\ waiter' = "parked"
            /\ UNCHANGED <<callback, inFlight>>
       ELSE \E c \in SelectReady :
              IF c[1] = "recv"
              THEN /\ waiter' = "msg"
                   /\ inFlight' = cmdReturned(inFlight, TRUE)
                   /\ callback' = [callback EXCEPT ![c[2]] = "idle"]
              ELSE /\ waiter' = "done"
                   /\ inFlight' = cmdReturned(inFlight, FALSE)
                   /\ UNCHANGED callback
    /\ UNCHANGED <<nodeCount, uiVars, canvasWidth, stopCh, synced, pending,
                   loop, quitMsg, screenStale, navVars, fnVars>>

\* the parked command, made runnable by close(m.stopCh), returns nil
CmdWake ==
    /\ waiter = "woken"
    /\ waiter' = "done"
    /\ inFlight' = cmdReturned(inFlight, FALSE)
    /\ UNCHANGED <<nodeCount, uiVars, canvasWidth, stopCh, synced, pending,
                   callback, loop, quitMsg, screenStale, navVars, fnVars>>

----------------------------------------------------------------------------
(* Update: the event loop takes one message, calls Update and then View *)

\* a select without the case <-m.stopCh
CloseLeavesParked(w) == w

\* close(m.stopCh) as seen by a command parked in the select
CloseWakes(w) == IF w = "parked" THEN "woken" ELSE w

\* case "ctrl+c", "q": close(m.stopCh); return m, tea.Quit
\* closing a closed channel panics
UpdateQuit ==
    /\ loop = "idle"
    /\ IF stopCh = "closed"
       THEN /\ loop' = "panicked"
            /\ UNCHANGED <<stopCh, waiter, inFlight, quitMsg>>
       ELSE /\ stopCh' = "closed"
            /\ waiter' = CloseWakes(waiter)
            /\ inFlight' = msgTaken(inFlight, "key")
            /\ quitMsg' = TRUE
            /\ loop' = "render"
    /\ UNCHANGED <<nodeCount, uiVars, canvasWidth, synced, pending,
                   callback, screenStale, navVars, fnVars>>

\* case "left", "right", "up", "down": m.selectedNode = m.moveCursor(msg)
UpdateMove(key) ==
    /\ loop = "idle"
    /\ IF moveCursorPanics(key, selectedNode, nodeCount, perRow)
       THEN /\ loop' = "panicked"
            /\ UNCHANGED <<selectedNode, inFlight>>
       ELSE /\ Abs(moveCursor(key, selectedNode, nodeCount, perRow)) <= MaxIndex
            /\ selectedNode' = moveCursor(key, selectedNode, nodeCount, perRow)
            /\ inFlight' = msgTaken(inFlight, "key")
            /\ loop' = "render"
    /\ UNCHANGED <<nodeCount, details, canvasWidth, stopCh, synced, waiter,
                   pending, callback, quitMsg, screenStale, navVars, fnVars>>

\* an enter key that also moves the cursor back to the first node
UpdateEnterResetsCursor ==
    /\ loop = "idle"
    /\ details' = ~details
    /\ selectedNode' = 0
    /\ inFlight' = msgTaken(inFlight, "key")
    /\ loop' = "render"
    /\ UNCHANGED <<nodeCount, canvasWidth, stopCh, synced, waiter, pending,
                   callback, quitMsg, screenStale, navVars, fnVars>>

\* case "enter": m.details = !m.details
UpdateEnter ==
    /\ loop = "idle"
    /\ details' = ~details
    /\ inFlight' = msgTaken(inFlight, "key")
    /\ loop' = "render"
    /\ UNCHANGED <<nodeCount, selectedNode, canvasWidth, stopCh, synced,
                   waiter, pending, callback, quitMsg, screenStale, navVars,
                   fnVars>>

\* any other message (case "?", which only switches the help text, another
\* key, a window resize): return m, nil
UpdateOther ==
    /\ loop = "idle"
    /\ inFlight' = msgTaken(inFlight, "other")
    /\ loop' = "render"
    /\ UNCHANGED <<nodeCount, uiVars, canvasWidth, stopCh, synced, waiter,
                   pending, callback, quitMsg, screenStale, navVars, fnVars>>

\* case k8sStateChange: return m, func() tea.Msg { select {...} }
UpdateRefresh ==
    /\ loop = "idle"
    /\ waiter = "msg"
    /\ waiter' = "spawned"
    /\ inFlight' = msgTaken(inFlight, "k8sStateChange")
    /\ loop' = "render"
    /\ UNCHANGED <<nodeCount, uiVars, canvasWidth, stopCh, synced, pending,
                   callback, quitMsg, screenStale, navVars, fnVars>>

\* the message of tea.Quit ends the event loop
LoopQuit ==
    /\ loop = "idle"
    /\ quitMsg
    /\ loop' = "exited"
    /\ quitMsg' = FALSE
    /\ UNCHANGED <<nodeCount, uiVars, canvasWidth, bridgeVars, screenStale,
                   navVars, fnVars>>

----------------------------------------------------------------------------
(* View *)

\* m.getNodes()[m.selectedNode] is an index out of range
DetailsPanics == ~(0 <= selectedNode /\ selectedNode < nodeCount)

\* nodes(): i%int(perRow) in the loop body divides by zero
NodesPanics(width) == nodeCount > 0 /\ NodesPerRow(width) = 0

\* rows of node boxes that nodes() joins: a new row at every i with
\* i % perRow = 0
NodeRows(width) ==
    (nodeCount + NodesPerRow(width) - 1) \div NodesPerRow(width)

\* strings.Count(canvas.String(), "\n"): every row is one box high
CanvasNewlines(width) ==
    IF nodeCount = 0 THEN 0 ELSE NodeRows(width) * NodeBoxLines - 1

\* strings.Repeat("\n", spaceToBottom) panics on a negative count
RepeatPanics(width, height) ==
    /\ nodeCount > 0
    /\ NodesPerRow(width) > 0
    /\ height - CanvasNewlines(width) < 0

\* the render pass does not return
ViewPanics(physicalWidth, physicalHeight, marshalErr) ==
    IF details
    THEN DetailsPanics \/ marshalErr
    ELSE NodesPanics(physicalWidth) \/ RepeatPanics(physicalWidth, physicalHeight)

\* View with term.GetSize reporting physicalWidth and physicalHeight, and
\* yaml.Marshal returning an error or not
View(physicalWidth, physicalHeight, marshalErr) ==
    /\ loop = "render"
    /\ IF details
       THEN UNCHANGED canvasWidth
       ELSE canvasWidth' = physicalWidth
    /\ IF ViewPanics(physicalWidth, physicalHeight, marshalErr)
       THEN /\ loop' = "panicked"
            /\ UNCHANGED screenStale
       ELSE /\ loop' = "idle"
            /\ screenStale' = FALSE
    /\ UNCHANGED <<nodeCount, uiVars, bridgeVars, quitMsg, navVars, fnVars>>

\* any render pass
Render ==
    \E w \in TermWidths, h \in TermHeights, e \in BOOLEAN : View(w, h, e)

----------------------------------------------------------------------------
(* The program *)

Next ==
    \/ NodeAdded
    \/ NodeDeleted
    \/ NodeUpdated
    \/ PodChanged
    \/ CacheSynced
    \/ \E i \in Informers : CallbackSend(i)
    \/ InitCmd
    \/ CmdSelect
    \/ CmdWake
    \/ UpdateQuit
    \/ \E key \in Keys : UpdateMove(key)
    \/ UpdateEnter
    \/ UpdateOther
    \/ UpdateRefresh
    \/ LoopQuit
    \/ Render

Spec == Init /\ [][Next]_vars

\* the commands and the callbacks are goroutines, the caches sync, and a
\* message sent to the event loop is eventually taken; keys, the terminal
\* and the cluster are free
FairSpec ==
    /\ Spec
    /\ WF_vars(CacheSynced)
    /\ WF_vars(InitCmd)
    /\ WF_vars(CmdSelect)
    /\ WF_vars(CmdWake)
    /\ \A i \in Informers : WF_vars(CallbackSend(i))
    /\ WF_vars(Render)
    /\ SF_vars(UpdateRefresh)
    /\ SF_vars(LoopQuit)

\* only the goroutine of the command released by close(m.stopCh) is
\* scheduled
CmdFairSpec == Spec /\ WF_vars(CmdWake)

----------------------------------------------------------------------------
(* moveCursor on its own: any store size, any width of at least one box,  *)
(* any index in range, then up to MaxNavKeys directional keys             *)

NavWidths == {CanvasHorizontalPadding + k * NodeBoxSize : k \in 1..MaxNavCols}

NavInit ==
    /\ nodeCount \in 0..MaxNavTotal
    /\ canvasWidth \in NavWidths
    /\ selectedNode \in {i \in 0..MaxNavTotal : InRange(i, nodeCount)}
    /\ navStart = selectedNode
    /\ navKeys = <<>>
    /\ input = <<>>
    /\ output = <<>>
    /\ details = FALSE
    /\ stopCh = "open"
    /\ synced = TRUE
    /\ waiter = "parked"
    /\ inFlight = [cmds |-> 1, msgs |-> 0]
    /\ pending = [i \in Informers |-> 0]
    /\ callback = [i \in Informers |-> "idle"]
    /\ loop = "idle"
    /\ quitMsg = FALSE
    /\ screenStale = FALSE

\* m.selectedNode = m.moveCursor(msg) with the store and the width fixed
NavMove(key) ==
    /\ Len(navKeys) < MaxNavKeys
    /\ ~moveCursorPanics(key, selectedNode, nodeCount, perRow)
    /\ selectedNode' = moveCursor(key, selectedNode, nodeCount, perRow)
    /\ navKeys' = Append(navKeys, key)
    /\ UNCHANGED <<nodeCount, details, canvasWidth, bridgeVars, loop,
                   quitMsg, screenStale, navStart, fnVars>>

NavNext == \E key \in Keys : NavMove(key)

NavSpec == NavInit /\ [][NavNext]_vars

----------------------------------------------------------------------------
(* Properties *)

\* signals not yet received by the event loop's command: notifications
\* queued in the listeners and handlers blocked in their send
PendingSignals ==
    pending["node"] + pending["pod"]
        + Cardinality({i \in Informers : callback[i] = "blocked"})

RowOf(index) == GoDiv(index, perRow)
ColOf(index) == GoRem(index, perRow)

\* C1: once a render pass has run after the latest change of the store,
\* the cursor index satisfies 0 <= index < max(1, number of nodes)
ClampAfterSnapshotChange ==
    ~screenStale => InRange(selectedNode, nodeCount)

\* C2: every directional move from an index in range returns an index in
\* range, 0 <= index < max(1, total), for per_row >= 1
NavigationKeepsCursorInRange ==
    [][InRange(selectedNode, nodeCount) => InRange(selectedNode', nodeCount)]_vars

\* C3: right from the last index lands on the first index of the row of
\* the last index, and right from an index in range stays in its row
RightWrapStaysInRow ==
    [][(/\ navKeys' = Append(navKeys, "right")
        /\ nodeCount >= 1
        /\ InRange(selectedNode, nodeCount))
       => /\ RowOf(selectedNode') = RowOf(selectedNode)
          /\ selectedNode = nodeCount - 1
                => selectedNode' = GoDiv(nodeCount - 1, perRow) * perRow]_vars

\* C4: GetBoxesPerRow of the canvas and the node box is at least 1 for
\* every width the canvas takes, the unset width included
BoxesPerRowAtLeastOne == perRow >= 1

\* C5: notifications that occur while the command is not waiting in its
\* select collapse into a single pending signal
NotificationsCoalesce ==
    waiter # "parked" => PendingSignals <= 1

\* C6: a notification handler never waits for the event loop
ProducerNeverBlocks ==
    \A i \in Informers : callback[i] # "blocked"

ChangeEventuallyRendered ==
    (/\ synced
     /\ stopCh = "open"
     /\ loop \in {"idle", "render"}
     /\ PendingSignals > 0)
        ~> (~screenStale \/ stopCh = "closed")

\* an index in range that is in neither the first nor the last column
InteriorColumn(index) ==
    /\ nodeCount >= 1
    /\ InRange(index, nodeCount)
    /\ ColOf(index) # 0
    /\ ColOf(index) # perRow - 1

\* C9: right then left from an index in an interior column returns to it
RightLeftRoundTrip ==
    (navKeys = <<"right", "left">> /\ InteriorColumn(navStart))
        => selectedNode = navStart

\* C9 witness: the round trip from the last entry of a short last row
RightLeftFromShortRowEnd ==
    /\ navKeys = <<"right", "left">>
    /\ InteriorColumn(navStart)
    /\ navStart = nodeCount - 1
    /\ selectedNode = navStart

\* an index in range that is in neither the top nor the bottom row
MiddleRow(index) ==
    /\ nodeCount >= 1
    /\ InRange(index, nodeCount)
    /\ RowOf(index) # 0
    /\ RowOf(index) # RowOf(nodeCount - 1)

\* C10: down then up from an index in a middle row returns to it
DownUpRoundTrip ==
    (navKeys = <<"down", "up">> /\ MiddleRow(navStart))
        => selectedNode = navStart

\* C10 witness: the round trip when the bottom row is short and has no
\* entry in the column of the index
DownUpOverShortBottomRow ==
    /\ navKeys = <<"down", "up">>
    /\ MiddleRow(navStart)
    /\ navStart + perRow >= nodeCount
    /\ selectedNode = navStart

\* the greatest index below the number of nodes whose column is col
LastInColumn(col) ==
    CHOOSE i \in 0..(nodeCount - 1) :
        /\ i % perRow = col
        /\ \A j \in 0..(nodeCount - 1) : j % perRow = col => j <= i

\* C11: down from an index with no entry below it lands on the top row in
\* the same column, and up from a top-row index lands on the greatest
\* index below total in the same column
VerticalWraparound ==
    /\ (navKeys = <<"down">> /\ nodeCount >= 1 /\ navStart + perRow >= nodeCount)
           => selectedNode = navStart % perRow
    /\ (navKeys = <<"up">> /\ nodeCount >= 1 /\ navStart < perRow)
           => selectedNode = LastInColumn(navStart)

\* C11 witness: 7 nodes, 3 per row, up from 0 gives 6
UpFromZeroOfSeven ==
    /\ nodeCount = 7
    /\ perRow = 3
    /\ navStart = 0
    /\ navKeys = <<"up">>
    /\ selectedNode = 6

----------------------------------------------------------------------------
(* The functions on their own: the arguments are drawn by the initial     *)
(* state, the program is at rest                                          *)

AtRest ==
    /\ nodeCount = 0
    /\ selectedNode = 0
    /\ details = FALSE
    /\ canvasWidth = 0
    /\ stopCh = "open"
    /\ synced = TRUE
    /\ waiter = "parked"
    /\ inFlight = [cmds |-> 1, msgs |-> 0]
    /\ pending = [i \in Informers |-> 0]
    /\ callback = [i \in Informers |-> "idle"]
    /\ loop = "idle"
    /\ quitMsg = FALSE
    /\ screenStale = FALSE
    /\ navStart = 0
    /\ navKeys = <<>>

(* mod *)

ModInit ==
    /\ AtRest
    /\ input \in (MinInt..MaxInt) \X (1..MaxInt)
    /\ output = <<>>

\* r := mod(a, b)
ApplyMod ==
    /\ output = <<>>
    /\ output' = <<mod(input[1], input[2])>>
    /\ UNCHANGED <<progVars, input>>

ModSpec == ModInit /\ [][ApplyMod]_vars

\* C12: for every int a and every int b > 0, mod(a, b) is in 0..b-1 and
\* differs from a by a multiple of b
TrueModulus ==
    output # <<>>
        => /\ 0 <= output[1]
           /\ output[1] < input[2]
           /\ (input[1] - output[1]) % input[2] = 0

\* C13: a render pass whose payload can be serialized completes for every
\* number of nodes, terminal size, mode and cursor index
RenderNeverFaults ==
    [][(\E w \in TermWidths, h \in TermHeights : View(w, h, FALSE))
           => loop' # "panicked"]_vars

\* C14: a render pass in detail mode whose payload cannot be serialized
\* returns, and the event loop goes on to the next message
SerializationFailureRecoverable ==
    [][(/\ details
        /\ ~DetailsPanics
        /\ \E w \in TermWidths, h \in TermHeights : View(w, h, TRUE))
           => loop' = "idle"]_vars

----------------------------------------------------------------------------
(* pods: the border colour of every pod box of one node.  A pod is the    *)
(* sequence of the Kinds of its OwnerReferences; the three programs of    *)
(* the repository colour differently                                      *)

OwnerKinds == {"ReplicaSet", "DaemonSet"}

\* the OwnerReferences a pod may carry
OwnerRefLists ==
    {<<>>} \cup {<<k>> : k \in OwnerKinds}
        \cup {<<"ReplicaSet", "DaemonSet">>, <<"DaemonSet", "ReplicaSet">>}

\* sequences of at most n elements of S
SeqUpTo(S, n) == UNION {[1..k -> S] : k \in 0..n}

\* for _, o := range pod.OwnerReferences { if o.Kind == "DaemonSet" {
\* color = dsColor } }
OwnerScan(refs, color, dsColor) ==
    IF \E k \in 1..Len(refs) : refs[k] = "DaemonSet" THEN dsColor ELSE color

\* cmd/main.go: color is set to the default in every iteration and the
\* body of the if is a comment, which leaves color as it is
podsMain(pods) ==
    [i \in 1..Len(pods) |-> OwnerScan(pods[i], "default", "default")]

\* unnamed/part_000: color is declared before the loop over the pods and
\* is never set back
RECURSIVE colorAfter(_, _)
colorAfter(pods, i) ==
    IF i = 0 THEN "default"
    ELSE OwnerScan(pods[i], colorAfter(pods, i - 1), "alternate")

podsPart000(pods) == [i \in 1..Len(pods) |-> colorAfter(pods, i)]

\* unnamed/part_001: color := green in every iteration, blue for a DaemonSet
podsPart001(pods) ==
    [i \in 1..Len(pods) |-> OwnerScan(pods[i], "default", "alternate")]

PodsInit ==
    /\ AtRest
    /\ input \in SeqUpTo(OwnerRefLists, MaxPods)
    /\ output = <<>>

RenderPodsMain ==
    /\ output = <<>>
    /\ output' = podsMain(input)
    /\ UNCHANGED <<progVars, input>>

RenderPodsPart000 ==
    /\ output = <<>>
    /\ output' = podsPart000(input)
    /\ UNCHANGED <<progVars, input>>

RenderPodsPart001 ==
    /\ output = <<>>
    /\ output' = podsPart001(input)
    /\ UNCHANGED <<progVars, input>>

PodsNext == RenderPodsMain \/ RenderPodsPart000 \/ RenderPodsPart001

PodsSpec == PodsInit /\ [][PodsNext]_vars

\* C15: a pod box has the alternate colour exactly when the pod's own
\* owner references contain the Kind "DaemonSet"
ChildColourClassification ==
    output # <<>>
        => \A i \in 1..Len(input) :
               (output[i] = "alternate")
                   <=> (\E k \in 1..Len(input[i]) : input[i][k] = "DaemonSet")

----------------------------------------------------------------------------
(* The order of the nodes (and of the pods of one node).  An object is    *)
(* its CreationTimestamp and its UID, a number standing for the string;   *)
(* the store lists its objects in any order                               *)

Entities == [created : 1..MaxStamp, uid : 1..MaxEntities]

\* what GetStore().List() may return: objects with distinct UIDs
StoreLists ==
    {l \in SeqUpTo(Entities, MaxEntities) :
        \A i, j \in 1..Len(l) : i # j => l[i].uid # l[j].uid}

\* the less function of getNodes and of pods in cmd/main.go
lessCreatedThenUID(x, y) ==
    IF x.created = y.created THEN x.uid < y.uid ELSE x.created < y.created

\* the less function of nodes and of pods in unnamed/part_000
lessCreated(x, y) == x.created < y.created

\* stable insertion of x into a sorted sequence: before the first element
\* that x is less than
RECURSIVE insertStable(_, _)
insertStable(x, sorted) ==
    IF sorted = <<>> THEN <<x>>
    ELSE IF lessCreatedThenUID(x, Head(sorted)) THEN <<x>> \o sorted
    ELSE <<Head(sorted)>> \o insertStable(x, Tail(sorted))

\* sort.SliceStable(nodes, less)
RECURSIVE sortSliceStable(_)
sortSliceStable(l) ==
    IF l = <<>> THEN <<>>
    ELSE insertStable(l[Len(l)], sortSliceStable(SubSeq(l, 1, Len(l) - 1)))

\* sort.Slice(nodes, less) is not stable: any arrangement of the list in
\* which no element is less than an earlier one
sortSlice(l) ==
    {r \in StoreLists :
        /\ Len(r) = Len(l)
        /\ {r[i] : i \in 1..Len(r)} = {l[i] : i \in 1..Len(l)}
        /\ \A i, j \in 1..Len(r) : i < j => ~lessCreated(r[j], r[i])}

OrderInit ==
    /\ AtRest
    /\ input \in StoreLists
    /\ output = <<>>

\* cmd/main.go getNodes and pods, unnamed/part_001 nodes and pods
GetNodes ==
    /\ output = <<>>
    /\ output' = sortSliceStable(input)
    /\ UNCHANGED <<progVars, input>>

\* unnamed/part_000 nodes and pods
GetNodesPart000 ==
    /\ output = <<>>
    /\ output' \in sortSlice(input)
    /\ UNCHANGED <<progVars, input>>

OrderNext == GetNodes \/ GetNodesPart000

OrderSpec == OrderInit /\ [][OrderNext]_vars

\* C16: the sequence holds the objects of the store in ascending order of
\* creation time and then of UID, whatever the order the store lists them in
DeterministicOrdering ==
    output # <<>>
        => /\ {output[i] : i \in 1..Len(output)}
                  = {input[i] : i \in 1..Len(input)}
           /\ Len(output) = Len(input)
           /\ \A i, j \in 1..Len(output) :
                  i < j => \/ output[i].created < output[j].created
                           \/ /\ output[i].created = output[j].created
                              /\ output[i].uid < output[j].uid

\* C17: a render pass leaves the cursor index, the detail flag and the
\* width from which moveCursor derives perRow as they were
RenderSideEffectFree ==
    [][Render => /\ selectedNode' = selectedNode
                 /\ details' = details
                 /\ canvasWidth' = canvasWidth]_vars

\* C18: the step that flips the detail flag is taken by the idle event
\* loop in any mode and leaves the index, the store and the width as
\* they were, so a second enter restores index and flag
DetailToggleFrame ==
    [][details' # details
           => /\ loop = "idle"
              /\ details' = ~details
              /\ selectedNode' = selectedNode
              /\ nodeCount' = nodeCount
              /\ canvasWidth' = canvasWidth]_vars

\* C18 witness: detail mode was switched on with the cursor on the second
\* node
DetailOnSecondNode ==
    /\ details
    /\ selectedNode = 1
    /\ nodeCount >= 2
    /\ loop = "render"

----------------------------------------------------------------------------
(* The layout loop of nodes and pods: input is <<n, perRow>>, the boxes   *)
(* are their flat indices 0..n-1, output is boxRows                       *)

\* a new row one box early
newRowOneEarly(i, boxesPerRow) ==
    i = 0 \/ GoRem(i + 1, boxesPerRow) = 0

\* if i%perRow == 0 { row++; boxRows = append(boxRows, []string{}) }
newRowAt(i, boxesPerRow) == GoRem(i, boxesPerRow) = 0

\* boxes appended so far
RECURSIVE placed(_)
placed(rows) ==
    IF rows = <<>> THEN 0 ELSE Len(Head(rows)) + placed(Tail(rows))

PackInit ==
    /\ AtRest
    /\ input \in (0..MaxPack) \X (1..MaxPackPerRow)
    /\ output = <<>>

\* one iteration of the loop: boxRows[row] = append(boxRows[row], box)
PackStep ==
    LET i == placed(output)
        rows == IF newRowAt(i, input[2]) THEN Append(output, <<>>) ELSE output
    IN  /\ i < input[1]
        /\ output' = [rows EXCEPT ![Len(rows)] = Append(@, i)]
        /\ UNCHANGED <<progVars, input>>

PackSpec == PackInit /\ [][PackStep]_vars

Min(a, b) == IF a < b THEN a ELSE b

\* C19: after i boxes the rows are ceil(i / per_row) rows, row r holds the
\* flat indices from r*per_row up to min((r+1)*per_row, i) - 1 in order,
\* so every row but the last is full and no row is empty
Packing ==
    LET i == placed(output)
        per == input[2]
    IN  /\ Len(output) = (i + per - 1) \div per
        /\ \A r \in 1..Len(output) :
               output[r] = [k \in 1..(Min(r * per, i) - (r - 1) * per)
                                |-> (r - 1) * per + k - 1]

\* C19 witness: 7 boxes, 3 per row
SevenBoxesInThrees ==
    /\ input = <<7, 3>>
    /\ output = <<<<0, 1, 2>>, <<3, 4, 5>>, <<6>>>>

\* C20: once stopCh is closed, a handler blocked in its send or still to
\* be called eventually returns (a panic of the event loop, which ends the
\* process and every handler with it, set aside)
ShutdownReleasesNotifier ==
    \A i \in Informers :
        (stopCh = "closed" /\ (callback[i] = "blocked" \/ pending[i] > 0))
            ~> \/ callback[i] = "idle" /\ pending[i] = 0
               \/ loop = "panicked"

\* a handler's send on k8sStateUpdate completes in this step: a blocked
\* sender is released, or a send meets the parked command at once
SignalReceived ==
    \E i \in Informers :
        \/ callback[i] = "blocked" /\ callback'[i] = "idle"
        \/ /\ pending'[i] < pending[i]
           /\ callback'[i] = "idle"

\* C21: a signal is received from the bridge channel only by a command
\* started after WaitForCacheSync returned (caches synced or stopCh
\* closed); a refresh message is either the one of Init's command after
\* that wait, or the result of one received signal
RefreshStartsAfterSync ==
    [][/\ SignalReceived
           => /\ waiter \in {"spawned", "parked"}
              /\ waiter' = "msg"
              /\ synced \/ stopCh = "closed"
       /\ (waiter' = "msg" /\ waiter # "msg")
           => IF waiter = "syncWait"
              THEN synced \/ stopCh = "closed"
              ELSE SignalReceived]_vars

\* C21 witness: after the sync the signal of an added node was received and
\* its refresh message is on its way to Update
NodeSignalReceivedAfterSync ==
    /\ synced
    /\ nodeCount = 1
    /\ pending["node"] = 0
    /\ callback["node"] = "idle"
    /\ waiter = "msg"
    /\ stopCh = "open"

\* C22: Update never closes stopCh when it is already closed
StopClosedAtMostOnce ==
    [][UpdateQuit => stopCh = "open"]_vars

\* C23: the commands waiting on the bridge and the refresh messages in
\* flight are together at most one, so no two commands wait for the same
\* signal
SingleOutstandingWaiter ==
    /\ inFlight.cmds >= 0
    /\ inFlight.msgs >= 0
    /\ inFlight.cmds + inFlight.msgs <= 1

\* C23 witness: after several keys and a refresh, the one command of the
\* last refresh is parked in its select and no message is in flight
OneWaitAfterKeysAndRefresh ==
    /\ inFlight = [cmds |-> 1, msgs |-> 0]
    /\ waiter = "parked"
    /\ details
    /\ selectedNode = 1
    /\ nodeCount >= 2
    /\ pending = [i \in Informers |-> 0]
    /\ callback = [i \in Informers |-> "idle"]

====
